---- MODULE Spec2Model ----
(***************************************************************************)
(* Model of the weather MCP server: the JSON-RPC dispatcher (MCPServer),   *)
(* the tool executor (WeatherMCP), the HTTP router with the two entry      *)
(* points that wrap the dispatcher (POST /mcp, POST /sse), the stream      *)
(* channels of GET /sse, and several POST requests handled side by side.   *)
(* Spec covers one request at a time, SseSpec the stream channels,         *)
(* ConcSpec the concurrent requests.                                       *)
(*                                                                         *)
(* Conventions.  A JavaScript value that may be undefined is modelled by   *)
(* the string Absent or by a record with a kind field.  A text built by a  *)
(* template literal or by Array.join is a sequence of chunks, a chunk is   *)
(* the sequence of the literal parts and interpolated values of one        *)
(* template; the text is the concatenation of all parts.                   *)
(***************************************************************************)
EXTENDS Integers, Naturals, Sequences, FiniteSets, TLC

\* ------------------------------------------------------------------ bounds
MaxFeatures == 2
MaxPeriods == 6
NumServers == 2
NumChannels == 2
NumSlots == 2
MaxPings == 2

\* --------------------------------------------------------------- constants
DefaultMaxForecastPeriods == 5
MethodNotFound == 0 - 32601
InternalError == 0 - 32603
ParseError == 0 - 32700
StatusOK == 200
StatusBadRequest == 400

\* ------------------------------------------------------- JavaScript values
Absent == "<undefined>"

\* String(v) as a template literal applies it: undefined prints "undefined"
Str(v) ==
  IF v = Absent THEN "undefined" ELSE v

\* x || fallback on a string property: undefined and "" are falsy
OrElse(v, fallback) ==
  IF v = Absent \/ v = "" THEN fallback ELSE v

\* Array.prototype.slice(0, end) for an integer end
Slice0(s, end) ==
  LET n == Len(s)
      k == IF end < 0 THEN (IF n + end < 0 THEN 0 ELSE n + end)
           ELSE (IF end > n THEN n ELSE end)
  IN  SubSeq(s, 1, k)

\* Array.prototype.join on an array of chunks: separator between neighbours
RECURSIVE Join(_, _)
Join(chunks, sep) ==
  IF Len(chunks) = 0 THEN << >>
  ELSE IF Len(chunks) = 1 THEN << chunks[1] >>
  ELSE << chunks[1], sep >> \o Join(Tail(chunks), sep)

Separator == << "\n---\n" >>

\* sequences over S of length at most n
SeqUpTo(S, n) ==
  UNION { [1..k -> S] : k \in 0..n }

\* ------------------------------------------------------- configuration (env)
\* env.MAX_FORECAST_PERIODS is a string variable of the deployment, or unset
EnvValues ==
  { [kind |-> "unset", n |-> 0], [kind |-> "text", n |-> 0] }
    \cup { [kind |-> "int", n |-> i] : i \in {0 - 1, 0, 2, 7} }

\* parseInt: NaN for undefined and for a non-numeric string
parseInt(v) ==
  IF v.kind = "int" THEN [nan |-> FALSE, n |-> v.n] ELSE [nan |-> TRUE, n |-> 0]

\* parseInt(x) || d : NaN and 0 are falsy
ParseIntOr(v, d) ==
  LET p == parseInt(v) IN IF p.nan \/ p.n = 0 THEN d ELSE p.n

WeatherConfig(e) ==
  [MAX_FORECAST_PERIODS |-> ParseIntOr(e.MAX_FORECAST_PERIODS, DefaultMaxForecastPeriods)]

\* ---------------------------------------------------------- upstream data
\* AlertFeature: properties with five optional strings
AlertFeature(ev, area, sev, desc, ins) ==
  [event |-> ev, areaDesc |-> area, severity |-> sev,
   description |-> desc, instruction |-> ins]

FeatureSamples ==
  { AlertFeature("Flood Warning", "Marin", "Severe", "Water rising", "Move uphill"),
    AlertFeature(Absent, "", Absent, Absent, "") }

\* ForecastPeriod number i of a payload; periods of one payload are distinct
ForecastPeriod(i) ==
  [name |-> "Period " \o ToString(i), temperature |-> 60 + i,
   temperatureUnit |-> "F", windSpeed |-> ToString(i) \o " mph",
   windDirection |-> "NW", detailedForecast |-> "Sunny"]

Periods(n) ==
  [i \in 1..n |-> ForecastPeriod(i)]

ForecastUrl == "https://api.weather.gov/gridpoints/MTR/84,105/forecast"

\* A parsed JSON payload, abstracted to the paths the tools read:
\* features[], properties.forecast, properties.periods[]
Payload(isNull, feat, props) ==
  [kind |-> IF isNull THEN "null" ELSE "obj", features |-> feat, properties |-> props]

NoFeatures == [kind |-> "absent", items |-> << >>]
NullFeatures == [kind |-> "null", items |-> << >>]
FeatureList(items) == [kind |-> "list", items |-> items]

NoPeriods == [kind |-> "absent", items |-> << >>]
PeriodList(items) == [kind |-> "list", items |-> items]

NoProperties == [kind |-> "absent", forecast |-> Absent, periods |-> NoPeriods]
Properties(forecast, periods) == [kind |-> "obj", forecast |-> forecast, periods |-> periods]

NullPayload == Payload(TRUE, NoFeatures, NoProperties)

AlertsPayloads ==
  { NullPayload, Payload(FALSE, NoFeatures, NoProperties),
    Payload(FALSE, NullFeatures, NoProperties) }
    \cup { Payload(FALSE, FeatureList(fs), NoProperties) :
             fs \in SeqUpTo(FeatureSamples, MaxFeatures) }

PointsPayloads ==
  { NullPayload, Payload(FALSE, NoFeatures, NoProperties),
    Payload(FALSE, NoFeatures, Properties(Absent, NoPeriods)),
    Payload(FALSE, NoFeatures, Properties(ForecastUrl, NoPeriods)) }

ForecastPayloads ==
  { NullPayload, Payload(FALSE, NoFeatures, NoProperties),
    Payload(FALSE, NoFeatures, Properties(Absent, NoPeriods)) }
    \cup { Payload(FALSE, NoFeatures, Properties(Absent, PeriodList(Periods(n)))) :
             n \in 0..MaxPeriods }

\* What one fetch() + response.json() can do
FailureKinds == { "network_error", "timeout", "http_error", "bad_body" }

FetchOutcomes(payloads) ==
  { [kind |-> k, data |-> NullPayload] : k \in FailureKinds }
    \cup { [kind |-> "ok", data |-> p] : p \in payloads }

\* A request url: fetch() rejects a url that is not a string
Url(parts) == [valid |-> TRUE, parts |-> parts]
UrlOf(v) == [valid |-> v # Absent, parts |-> << Str(v) >>]
NoUrl == [valid |-> FALSE, parts |-> << >>]

NWS_API_BASE == "https://api.weather.gov"

\* the try block of makeNWSRequest: fetch() rejects on a bad url, a network
\* failure and a timeout; a non-2xx status returns null; response.json()
\* rejects on a body that does not parse
makeNWSRequestTry(url, net) ==
  IF ~url.valid \/ net.kind \in {"network_error", "timeout"}
  THEN [threw |-> TRUE, data |-> NullPayload]
  ELSE IF net.kind = "http_error" THEN [threw |-> FALSE, data |-> NullPayload]
  ELSE IF net.kind = "bad_body" THEN [threw |-> TRUE, data |-> NullPayload]
  ELSE [threw |-> FALSE, data |-> net.data]

\* mutant: the catch block lets a timeout through to the caller
makeNWSRequest_RethrowsTimeout(url, net) ==
  LET t == makeNWSRequestTry(url, net)
  IN  IF t.threw
      THEN [raised |-> net.kind = "timeout", data |-> NullPayload]
      ELSE [raised |-> FALSE, data |-> t.data]

\* makeNWSRequest: the catch block logs and returns null; raised tells
\* whether the call ended in an exception for its caller
makeNWSRequest(url, net) ==
  LET t == makeNWSRequestTry(url, net)
  IN  IF t.threw
      THEN [raised |-> FALSE, data |-> NullPayload]
      ELSE [raised |-> FALSE, data |-> t.data]

\* ------------------------------------------------------------ tool executor
\* One step of an async tool: it returns a text, throws, or awaits a fetch
Return(text) ==
  [step |-> "return", text |-> text, message |-> << >>, call |-> "none", url |-> NoUrl]
Throw(message) ==
  [step |-> "throw", text |-> << >>, message |-> message, call |-> "none", url |-> NoUrl]
Await(call, url) ==
  [step |-> "await", text |-> << >>, message |-> << >>, call |-> call, url |-> url]

TypeErrorMessage(what) == << "TypeError: cannot read ", what >>

formatAlert(feature) ==
  << "\nEvent: ", OrElse(feature.event, "Unknown"),
     "\nArea: ", OrElse(feature.areaDesc, "Unknown"),
     "\nSeverity: ", OrElse(feature.severity, "Unknown"),
     "\nDescription: ", OrElse(feature.description, "No description available"),
     "\nInstructions: ", OrElse(feature.instruction, "No specific instructions provided"),
     "\n" >>

formatPeriod(period) ==
  << "\n", period.name, ":\nTemperature: ", ToString(period.temperature), "°",
     period.temperatureUnit, "\nWind: ", period.windSpeed, " ", period.windDirection,
     "\nForecast: ", period.detailedForecast, "\n" >>

UnableAlerts == << << "Unable to fetch alerts or no alerts found." >> >>
NoActiveAlerts == << << "No active alerts for this state." >> >>
UnablePoints == << << "Unable to fetch forecast data for this location." >> >>
UnableForecast == << << "Unable to fetch detailed forecast." >> >>

\* getAlerts up to its await
getAlerts(state) ==
  Await("alerts", Url(<< NWS_API_BASE, "/alerts/active/area/", Str(state) >>))

\* mutant: the empty list is not told apart from a missing one
getAlertsResume_NoEmptyCase(data) ==
  IF data.kind = "null" \/ data.features.kind # "list" \/ Len(data.features.items) = 0
  THEN Return(UnableAlerts)
  ELSE LET alerts == [i \in 1..Len(data.features.items) |->
                        formatAlert(data.features.items[i])]
       IN  Return(Join(alerts, Separator))

\* getAlerts after makeNWSRequest returned data
getAlertsResume(data) ==
  IF data.kind = "null" \/ data.features.kind # "list" THEN Return(UnableAlerts)
  ELSE IF Len(data.features.items) = 0 THEN Return(NoActiveAlerts)
  ELSE LET alerts == [i \in 1..Len(data.features.items) |->
                        formatAlert(data.features.items[i])]
       IN  Return(Join(alerts, Separator))

\* getForecast up to its first await
getForecast(latitude, longitude) ==
  Await("points", Url(<< NWS_API_BASE, "/points/", Str(latitude), ",", Str(longitude) >>))

\* mutant: the forecast fetch is issued although the points fetch failed
getForecastPoints_NoNullCheck(pointsData) ==
  IF pointsData.kind = "null" THEN Await("forecast", NoUrl)
  ELSE IF pointsData.properties.kind = "absent"
    THEN Throw(TypeErrorMessage("properties.forecast"))
  ELSE Await("forecast", UrlOf(pointsData.properties.forecast))

\* getForecast after the points fetch returned pointsData
getForecastPoints(pointsData) ==
  IF pointsData.kind = "null" THEN Return(UnablePoints)
  ELSE IF pointsData.properties.kind = "absent"
    THEN Throw(TypeErrorMessage("properties.forecast"))
  ELSE Await("forecast", UrlOf(pointsData.properties.forecast))

\* getForecast after the forecast fetch returned forecastData
getForecastPeriods(forecastData, config) ==
  IF forecastData.kind = "null" THEN Return(UnableForecast)
  ELSE IF forecastData.properties.kind = "absent"
    THEN Throw(TypeErrorMessage("properties.periods"))
  ELSE IF forecastData.properties.periods.kind # "list"
    THEN Throw(TypeErrorMessage("periods.slice"))
  ELSE LET shown == Slice0(forecastData.properties.periods.items,
                           config.MAX_FORECAST_PERIODS)
           forecasts == [i \in 1..Len(shown) |-> formatPeriod(shown[i])]
       IN  Return(Join(forecasts, Separator))

ToolDescriptor(name, required) ==
  [name |-> name, inputSchema |-> [type |-> "object", required |-> required]]

\* mutant: the descriptors are listed in the other order
getTools_Reversed ==
  << ToolDescriptor("get_forecast", << "latitude", "longitude" >>),
     ToolDescriptor("get_alerts", << "state" >>) >>

getTools ==
  << ToolDescriptor("get_alerts", << "state" >>),
     ToolDescriptor("get_forecast", << "latitude", "longitude" >>) >>

\* Tool arguments: undefined, null, a primitive, or an object
Args(kind, state, latitude, longitude) ==
  [kind |-> kind, state |-> state, latitude |-> latitude, longitude |-> longitude]

\* args.x throws on undefined and null, is undefined on a primitive
ArgsReadable(args) == args.kind \in {"prim", "obj"}

\* mutant: an unknown name falls through to the first tool
executeTool_FallsThrough(name, args) ==
  IF name = "get_forecast" THEN
    IF ArgsReadable(args) THEN getForecast(args.latitude, args.longitude)
    ELSE Throw(TypeErrorMessage("args.latitude"))
  ELSE IF ArgsReadable(args) THEN getAlerts(args.state)
  ELSE Throw(TypeErrorMessage("args.state"))

\* executeTool up to the first await of the tool it selects
executeTool(name, args) ==
  IF name = "get_alerts" THEN
    IF ArgsReadable(args) THEN getAlerts(args.state)
    ELSE Throw(TypeErrorMessage("args.state"))
  ELSE IF name = "get_forecast" THEN
    IF ArgsReadable(args) THEN getForecast(args.latitude, args.longitude)
    ELSE Throw(TypeErrorMessage("args.latitude"))
  ELSE Throw(<< "Unknown tool: ", Str(name) >>)

\* a tool resumed with the data of the fetch it awaited
ResumeTool(call, data, config) ==
  IF call = "alerts" THEN getAlertsResume(data)
  ELSE IF call = "points" THEN getForecastPoints(data)
  ELSE getForecastPeriods(data, config)

\* ------------------------------------------------------------- dispatcher
\* MCPRequest as parsed from JSON: the value null, a primitive, or an object
Ids == { Absent, "1", "req-7" }
Methods == { Absent, "initialize", "tools/list", "tools/call", "nonexistent" }
ToolNames == { Absent, "get_alerts", "get_forecast", "get_weather" }

ArgsValues ==
  { Args(k, Absent, Absent, Absent) : k \in {"undefined", "null", "prim"} }
    \cup { Args("obj", st, la, lo) :
             st \in {Absent, "CA"}, la \in {Absent, "37.77"}, lo \in {Absent, "-122.42"} }

Params(kind, name, args) ==
  [kind |-> kind, name |-> name, args |-> args]

NoArgs == Args("undefined", Absent, Absent, Absent)

ParamsValues ==
  { Params(k, Absent, NoArgs) : k \in {"undefined", "null", "prim"} }
    \cup { Params("obj", n, a) : n \in ToolNames, a \in ArgsValues }

MCPRequest(kind, id, method, params) ==
  [kind |-> kind, id |-> id, method |-> method, params |-> params]

NoParams == Params("undefined", Absent, NoArgs)
NullRequest == MCPRequest("null", Absent, Absent, NoParams)
PrimRequest == MCPRequest("prim", Absent, Absent, NoParams)

\* params of every kind; every tool name and argument shape under tools/call
ParamsOf(method) ==
  IF method = "tools/call" THEN ParamsValues
  ELSE { Params(k, Absent, NoArgs) : k \in {"undefined", "null", "prim"} }
         \cup { Params("obj", "get_alerts", Args("obj", "CA", Absent, Absent)) }

Requests ==
  { NullRequest, PrimRequest }
    \cup UNION { { MCPRequest("obj", i, m, p) : i \in Ids, p \in ParamsOf(m) } :
                   m \in Methods }

\* MCPResponse: result and error are optional members (<< >> when not set)
ResultEnvelope(id, result) ==
  [jsonrpc |-> "2.0", id |-> id, result |-> << result >>, error |-> << >>]

\* mutant: the error envelope forgets the request id
ErrorEnvelope_NoId(id, code, message) ==
  [jsonrpc |-> "2.0", id |-> Absent, result |-> << >>,
   error |-> << [code |-> code, message |-> message] >>]

ErrorEnvelope(id, code, message) ==
  [jsonrpc |-> "2.0", id |-> id, result |-> << >>,
   error |-> << [code |-> code, message |-> message] >>]

\* One step of handleRequest: the promise resolves with an envelope, rejects,
\* or the handler is suspended in a fetch
Resolve(envelope, init) ==
  [step |-> "return", envelope |-> << envelope >>, initialized |-> init,
   message |-> << >>, call |-> "none", url |-> NoUrl]
Reject(message, init) ==
  [step |-> "reject", envelope |-> << >>, initialized |-> init,
   message |-> message, call |-> "none", url |-> NoUrl]
Suspend(call, url, init) ==
  [step |-> "await", envelope |-> << >>, initialized |-> init,
   message |-> << >>, call |-> call, url |-> url]

InitializeResult ==
  [protocolVersion |-> "2025-06-18", capabilities |-> [tools |-> << >>],
   serverInfo |-> [name |-> "weather-mcp-server", version |-> "1.0.0"]]

\* mutant: a second initialize on the same instance is refused
handleInitialize_Once(request, init) ==
  IF init
  THEN Resolve(ErrorEnvelope(request.id, InternalError, << "Already initialized" >>), init)
  ELSE Resolve(ResultEnvelope(request.id, InitializeResult), TRUE)

\* handleInitialize sets this.initialized whatever it was
handleInitialize(request, init) ==
  Resolve(ResultEnvelope(request.id, InitializeResult), TRUE)

\* mutant: the tool list is refused before initialize
handleToolsList_RequiresInit(request, init) ==
  IF init THEN Resolve(ResultEnvelope(request.id, [tools |-> getTools]), init)
  ELSE Resolve(ErrorEnvelope(request.id, InternalError, << "Not initialized" >>), init)

handleToolsList(request, init) ==
  Resolve(ResultEnvelope(request.id, [tools |-> getTools]), init)

\* the try/catch of handleToolsCall around a tool that returned or threw
handleToolsCallSettle(request, t, init) ==
  IF t.step = "return"
  THEN Resolve(ResultEnvelope(request.id,
                 [content |-> << [type |-> "text", text |-> t.text] >>]), init)
  ELSE Resolve(ErrorEnvelope(request.id, InternalError, t.message), init)

\* handleToolsCall up to the first await: the destructuring of request.params
\* is outside the try block
handleToolsCall(request, init) ==
  IF request.params.kind \in {"undefined", "null"}
  THEN Reject(TypeErrorMessage("params.name"), init)
  ELSE LET name == IF request.params.kind = "obj" THEN request.params.name ELSE Absent
           args == IF request.params.kind = "obj" THEN request.params.args ELSE NoArgs
           t == executeTool(name, args)
       IN  IF t.step = "await" THEN Suspend(t.call, t.url, init)
           ELSE handleToolsCallSettle(request, t, init)

\* mutant: the default branch reports an internal error
handleRequest_DefaultInternal(request, init) ==
  IF request.kind = "null" THEN Reject(TypeErrorMessage("request.id"), init)
  ELSE IF request.method = "initialize" THEN handleInitialize(request, init)
  ELSE IF request.method = "tools/list" THEN handleToolsList(request, init)
  ELSE IF request.method = "tools/call" THEN handleToolsCall(request, init)
  ELSE Resolve(ErrorEnvelope(request.id, InternalError,
                 << "Method not found: ", Str(request.method) >>), init)

\* handleRequest up to the first await.  The promise of handleToolsCall is
\* returned without await, so its rejection is not caught here; on the JSON
\* value null the catch block itself throws when it reads request.id.
handleRequest(request, init) ==
  IF request.kind = "null" THEN Reject(TypeErrorMessage("request.id"), init)
  ELSE IF request.method = "initialize" THEN handleInitialize(request, init)
  ELSE IF request.method = "tools/list" THEN handleToolsList(request, init)
  ELSE IF request.method = "tools/call" THEN handleToolsCall(request, init)
  ELSE Resolve(ErrorEnvelope(request.id, MethodNotFound,
                 << "Method not found: ", Str(request.method) >>), init)

\* handleRequest resumed when the fetch it awaits has come back
handleRequestResume(request, call, data, config, init) ==
  LET t == ResumeTool(call, data, config)
  IN  IF t.step = "await" THEN Suspend(t.call, t.url, init)
      ELSE handleToolsCallSettle(request, t, init)

\* ------------------------------------------------------------- HTTP surface
JsonHeaders ==
  { << "Content-Type", "application/json" >>, << "Access-Control-Allow-Origin", "*" >> }

BareJsonHeaders == { << "Content-Type", "application/json" >> }

\* JSON.stringify of an envelope: a member whose value is undefined is dropped
Stringify(envelope) ==
  [jsonrpc |-> envelope.jsonrpc,
   id |-> IF envelope.id = Absent THEN << >> ELSE << envelope.id >>,
   result |-> envelope.result, error |-> envelope.error]

HttpResponse(status, headers, body) ==
  [status |-> status, headers |-> headers, body |-> body]

ParseErrorResponse ==
  HttpResponse(StatusBadRequest, JsonHeaders,
    [jsonrpc |-> "2.0", id |-> << >>, result |-> << >>,
     error |-> << [code |-> ParseError, message |-> << "Parse error" >>] >>])

\* handleMCPMessage / handleSSEPost once handleRequest has settled: the
\* response on the try path, the catch path when the awaited promise rejected
handleMCPMessage(d) ==
  IF d.step = "return"
  THEN HttpResponse(StatusOK, JsonHeaders, Stringify(d.envelope[1]))
  ELSE ParseErrorResponse

\* mutant: the /sse handler answers without the CORS header
handleSSEPost_NoCors(d) ==
  IF d.step = "return"
  THEN HttpResponse(StatusOK, BareJsonHeaders, Stringify(d.envelope[1]))
  ELSE ParseErrorResponse

handleSSEPost(d) ==
  IF d.step = "return"
  THEN HttpResponse(StatusOK, JsonHeaders, Stringify(d.envelope[1]))
  ELSE ParseErrorResponse

PostPaths == { "/mcp", "/sse" }

HttpMethods == { "GET", "POST", "PUT", "OPTIONS" }
Paths == { "/", "/sse", "/mcp", "/tools", "/health", "/nope" }

StatusMethodNotAllowed == 405
StatusNotFound == 404

CorsHeaders ==
  { << "Access-Control-Allow-Origin", "*" >>,
    << "Access-Control-Allow-Methods", "GET, POST, OPTIONS" >>,
    << "Access-Control-Allow-Headers", "Content-Type" >> }

\* new Response(string) without a Content-Type is served as text/plain
TextHeaders == { << "Content-Type", "text/plain;charset=UTF-8" >> }
HtmlHeaders == { << "Content-Type", "text/html" >> }

\* the handler the worker's fetch() hands the request to; the /mcp case of
\* the switch in handleHTTPRequest is resolved here
fetch(method, path) ==
  IF method = "OPTIONS" THEN "preflight"
  ELSE IF path = "/sse" /\ method = "POST" THEN "handleSSEPost"
  ELSE IF path = "/sse" /\ method = "GET" THEN "handleSSERequest"
  ELSE IF path = "/mcp" /\ method = "POST" THEN "handleMCPMessage"
  ELSE "handleHTTPRequest"

Preflight ==
  HttpResponse(StatusOK, CorsHeaders, [kind |-> "empty"])

\* the request GET /tools builds for the dispatcher
ListRequest == MCPRequest("obj", "2", "tools/list", NoParams)

\* mutant: the default branch answers as the /mcp branch does
handleHTTPRequest_Default405(method, path) ==
  IF path = "/" THEN HttpResponse(StatusOK, HtmlHeaders, [kind |-> "html"])
  ELSE IF path = "/tools"
    THEN HttpResponse(StatusOK, BareJsonHeaders,
           Stringify(handleRequest(ListRequest, FALSE).envelope[1]))
  ELSE IF path = "/health"
    THEN HttpResponse(StatusOK, BareJsonHeaders,
           [status |-> "healthy", protocolVersion |-> "2025-06-18"])
  ELSE HttpResponse(StatusMethodNotAllowed, TextHeaders,
         [kind |-> "text", text |-> "Method not allowed"])

\* handleHTTPRequest for every request it answers itself (all but POST /mcp):
\* only the /mcp branch looks at the method
handleHTTPRequest(method, path) ==
  IF path = "/" THEN HttpResponse(StatusOK, HtmlHeaders, [kind |-> "html"])
  ELSE IF path = "/mcp"
    THEN HttpResponse(StatusMethodNotAllowed, TextHeaders,
           [kind |-> "text", text |-> "Method not allowed"])
  ELSE IF path = "/tools"
    THEN HttpResponse(StatusOK, BareJsonHeaders,
           Stringify(handleRequest(ListRequest, FALSE).envelope[1]))
  ELSE IF path = "/health"
    THEN HttpResponse(StatusOK, BareJsonHeaders,
           [status |-> "healthy", protocolVersion |-> "2025-06-18"])
  ELSE HttpResponse(StatusNotFound, TextHeaders,
         [kind |-> "text", text |-> "Not Found"])

\* the response of the POST handler that fetch() selects for the path
PostResponse(path, d) ==
  IF fetch("POST", path) = "handleMCPMessage" THEN handleMCPMessage(d)
  ELSE handleSSEPost(d)

\* request.json() rejected: the handler goes to its catch block
JsonFailure == Reject(<< "SyntaxError" >>, FALSE)

\* ----------------------------------------------------------- stream channel
\* One channel of GET /sse: the ReadableStream with its controller, the id
\* of its ping interval, the abort listener, and what was written.  log
\* holds the event names enqueued, in order, and the marks "<abort>" (the
\* signal fired) and "<cancel>" (the consumer cancelled the stream); closes
\* counts the calls of controller.close(), uncaught names the callbacks an
\* exception escaped from.
Channels == 1..NumChannels

NoChannel ==
  [stream |-> "none", pingInterval |-> 0, listening |-> FALSE, aborted |-> FALSE,
   log |-> << >>, failedWrites |-> 0, closes |-> 0, uncaught |-> << >>]

\* controller.enqueue and controller.close throw once the stream is closed,
\* cancelled or errored
CanCloseOrEnqueue(ch) == ch.stream = "readable"

Pings(ch) == Cardinality({ i \in 1..Len(ch.log) : ch.log[i] = "ping" })

\* mutant: one interval handle is shared by all channels
setInterval_Shared(seq) == 1

\* setInterval hands out a fresh id
setInterval(seq) == seq + 1

\* mutant: the ready message is not sent when the channel opens
start_NoConnected(ch, id) ==
  [ch EXCEPT !.stream = "readable", !.pingInterval = id, !.listening = TRUE]

\* start(controller) of the stream: the connected event, the interval, the
\* abort listener.  Nothing in the try block throws on a fresh controller.
start(ch, id) ==
  [ch EXCEPT !.stream = "readable", !.log = << "connected" >>,
             !.pingInterval = id, !.listening = TRUE]

\* a channel together with whether clearInterval(pingInterval) was called
Cleared(ch, clear) == [channel |-> ch, clear |-> clear]

\* mutant: a failed ping write leaves the interval running
pingCallback_KeepsTimer(ch) ==
  IF CanCloseOrEnqueue(ch)
  THEN Cleared([ch EXCEPT !.log = Append(@, "ping")], FALSE)
  ELSE Cleared([ch EXCEPT !.failedWrites = @ + 1], FALSE)

\* the interval callback: enqueue a ping; if that throws, clearInterval
pingCallback(ch) ==
  IF CanCloseOrEnqueue(ch)
  THEN Cleared([ch EXCEPT !.log = Append(@, "ping")], FALSE)
  ELSE Cleared([ch EXCEPT !.failedWrites = @ + 1], TRUE)

\* mutant: the abort listener closes the stream but leaves the interval
abortListener_KeepsTimer(ch) ==
  IF CanCloseOrEnqueue(ch)
  THEN Cleared([ch EXCEPT !.stream = "closed", !.closes = @ + 1], FALSE)
  ELSE Cleared([ch EXCEPT !.closes = @ + 1,
                          !.uncaught = Append(@, "abortListener")], FALSE)

\* the abort listener: clearInterval, then controller.close(), which throws
\* out of the listener when the stream is no longer readable
abortListener(ch) ==
  IF CanCloseOrEnqueue(ch)
  THEN Cleared([ch EXCEPT !.stream = "closed", !.closes = @ + 1], TRUE)
  ELSE Cleared([ch EXCEPT !.closes = @ + 1,
                          !.uncaught = Append(@, "abortListener")], TRUE)

\* ------------------------------------------------------ concurrent requests
\* One invocation of handleMCPMessage / handleSSEPost: the path and request
\* the client sent, the locals of the handler (its MCPServer's flag, the
\* fetch it awaits), the upstream calls it made, and its answer.
Slots == 1..NumSlots

Slot(pcs, via, req) ==
  [pc |-> pcs, via |-> via, request |-> req, own |-> FALSE,
   pending |-> [call |-> "none", url |-> NoUrl], calls |-> << >>,
   outcome |-> << >>, http |-> << >>]

NoSlot == Slot("idle", "none", NullRequest)

\* the requests sent concurrently: two tool calls that suspend, under
\* different ids, one call that is answered at once, one without params
ConcRequests ==
  { MCPRequest("obj", "1", "tools/call",
      Params("obj", "get_forecast", Args("obj", Absent, "37.77", "-122.42"))),
    MCPRequest("obj", "req-7", "tools/call",
      Params("obj", "get_alerts", Args("obj", "CA", Absent, Absent))),
    MCPRequest("obj", "1", "tools/list", NoParams),
    MCPRequest("obj", "req-7", "tools/call", NoParams) }

\* the upstream answers they get: a failure, or one of a few payloads
ConcOutcomes(call) ==
  { [kind |-> "http_error", data |-> NullPayload] }
    \cup { [kind |-> "ok", data |-> p] :
             p \in IF call = "alerts"
                   THEN { Payload(FALSE, FeatureList(<< >>), NoProperties),
                          Payload(FALSE, FeatureList(<< AlertFeature("Flood Warning",
                            "Marin", "Severe", "Water rising", "Move uphill") >>),
                            NoProperties) }
                   ELSE IF call = "points"
                   THEN { Payload(FALSE, NoFeatures, Properties(ForecastUrl, NoPeriods)) }
                   ELSE { Payload(FALSE, NoFeatures, NoProperties),
                          Payload(FALSE, NoFeatures,
                                  Properties(Absent, PeriodList(Periods(2)))) } }

\* handler sl has made step d of handleRequest, its upstream log is now log
SlotStep(sl, d, log) ==
  IF d.step = "await"
  THEN [sl EXCEPT !.pc = "await", !.own = d.initialized,
                  !.pending = [call |-> d.call, url |-> d.url],
                  !.calls = Append(log, [call |-> d.call, url |-> d.url,
                                         net |-> [kind |-> "pending", data |-> NullPayload],
                                         result |-> [raised |-> FALSE, data |-> NullPayload]])]
  ELSE [sl EXCEPT !.pc = "done", !.own = d.initialized,
                  !.pending = [call |-> "none", url |-> NoUrl],
                  !.calls = log, !.outcome = << d >>,
                  !.http = << PostResponse(sl.via, d) >>]

\* mutant: request and server are kept in module-level variables, so a
\* resumed handler sees those of the latest invocation
Locals_Shared(sl, k) ==
  sl[CHOOSE j \in Slots :
       /\ sl[j].pc # "idle"
       /\ \A i \in Slots : sl[i].pc # "idle" => i <= j]

\* request and mcpServer are consts of the invocation: a resumed handler
\* sees its own
Locals(sl, k) == sl[k]

\* ------------------------------------------------------------ state machine
Servers == 1..NumServers

VARIABLES
  env,          \* deployment variables, fixed at start
  initialized,  \* initialized flag of each long-lived MCPServer instance
  pc,           \* "idle", "await" (suspended in fetch), "done"
  entry,        \* who called: via "api" (handleRequest on a server), "/mcp", "/sse"
  request,      \* the MCPRequest being handled
  own,          \* initialized flag of the MCPServer built for an HTTP post
  pending,      \* the fetch the handler is suspended in
  calls,        \* upstream fetches issued for this request, in order
  outcome,      \* << >> or the settled promise of handleRequest
  http,         \* << >> or the HTTP response
  route,        \* method and path of the HTTP request being answered
  channels,     \* the stream channels opened by GET /sse
  timers,       \* the interval timers that are set and not cleared
  timerSeq,     \* the last timer id setInterval handed out
  slots         \* the POST requests being handled at the same time

reqVars ==
  << env, initialized, pc, entry, request, own, pending, calls, outcome, http, route >>

sseVars == << channels, timers, timerSeq >>

vars == << reqVars, sseVars, slots >>

Route(method, path) == [method |-> method, path |-> path]
NoRoute == Route("none", "none")

\* before: the flag of the serving instance when the call came in
Entry(via, server, json, before) ==
  [via |-> via, server |-> server, json |-> json, before |-> before]

NoEntry == Entry("none", 0, TRUE, FALSE)
NotSent == [kind |-> "pending", data |-> NullPayload]
NoResult == [raised |-> FALSE, data |-> NullPayload]
NoPending == [call |-> "none", url |-> NoUrl]

Init ==
  /\ env \in [MAX_FORECAST_PERIODS : EnvValues]
  /\ initialized = [s \in Servers |-> FALSE]
  /\ pc = "idle"
  /\ entry = NoEntry
  /\ request = NullRequest
  /\ own = FALSE
  /\ pending = NoPending
  /\ calls = << >>
  /\ outcome = << >>
  /\ http = << >>
  /\ route = NoRoute
  /\ channels = [c \in Channels |-> NoChannel]
  /\ timers = { }
  /\ timerSeq = 0
  /\ slots = [k \in Slots |-> NoSlot]

\* the flag of the instance that serves the current request
Flag(e) ==
  IF e.via = "api" THEN initialized[e.server] ELSE own

\* record a step d of handleRequest made on behalf of entry e
Advance(e, d, log) ==
  /\ IF e.via = "api"
     THEN /\ initialized' = [initialized EXCEPT ![e.server] = d.initialized]
          /\ own' = own
     ELSE /\ own' = d.initialized
          /\ UNCHANGED initialized
  /\ IF d.step = "await"
     THEN /\ pc' = "await"
          /\ pending' = [call |-> d.call, url |-> d.url]
          /\ calls' = Append(log, [call |-> d.call, url |-> d.url, net |-> NotSent,
                                   result |-> NoResult])
          /\ outcome' = << >>
          /\ http' = << >>
     ELSE /\ pc' = "done"
          /\ pending' = NoPending
          /\ calls' = log
          /\ outcome' = << d >>
          /\ http' = IF e.via \in PostPaths THEN << PostResponse(e.via, d) >>
                     ELSE << >>

\* a caller invokes handleRequest on a long-lived MCPServer
CallHandleRequest(s, r) ==
  /\ pc = "idle"
  /\ entry' = Entry("api", s, TRUE, initialized[s])
  /\ request' = r
  /\ Advance(entry', handleRequest(r, initialized[s]), << >>)
  /\ route' = NoRoute
  /\ UNCHANGED env
  /\ UNCHANGED << sseVars, slots >>

\* POST /mcp or POST /sse with a body that is not JSON: request.json() rejects
PostMalformed(path) ==
  /\ pc = "idle"
  /\ entry' = Entry(path, 0, FALSE, FALSE)
  /\ request' = NullRequest
  /\ pc' = "done"
  /\ http' = << PostResponse(path, JsonFailure) >>
  /\ route' = Route("POST", path)
  /\ UNCHANGED << env, initialized, own, pending, calls, outcome >>
  /\ UNCHANGED << sseVars, slots >>

\* POST /mcp or POST /sse with a JSON body: new MCPServer(env), handleRequest
Post(path, r) ==
  /\ pc = "idle"
  /\ entry' = Entry(path, 0, TRUE, FALSE)
  /\ request' = r
  /\ Advance(entry', handleRequest(r, FALSE), << >>)
  /\ route' = Route("POST", path)
  /\ UNCHANGED env
  /\ UNCHANGED << sseVars, slots >>

\* any other request that is answered at once: the preflight, and whatever
\* handleHTTPRequest answers itself; GET /tools runs tools/list on its own
\* MCPServer
Answer(method, path) ==
  /\ pc = "idle"
  /\ fetch(method, path) \in {"preflight", "handleHTTPRequest"}
  /\ pc' = "done"
  /\ route' = Route(method, path)
  /\ entry' = Entry("http", 0, TRUE, FALSE)
  /\ IF fetch(method, path) = "handleHTTPRequest" /\ path = "/tools"
     THEN /\ request' = ListRequest
          /\ outcome' = << handleRequest(ListRequest, FALSE) >>
     ELSE /\ request' = NullRequest
          /\ outcome' = << >>
  /\ http' = IF fetch(method, path) = "preflight" THEN << Preflight >>
             ELSE << handleHTTPRequest(method, path) >>
  /\ UNCHANGED << env, initialized, own, pending, calls >>
  /\ UNCHANGED << sseVars, slots >>

\* the handler after makeNWSRequest came back with r: an exception out of
\* makeNWSRequest would leave the tool and reach the catch of handleToolsCall
AfterFetch(r, req, call, config, init) ==
  IF r.raised
  THEN handleToolsCallSettle(req, Throw(<< "fetch failed" >>), init)
  ELSE handleRequestResume(req, call, r.data, config, init)

\* the fetch the handler awaits comes back; the handler runs on
FetchSettles(net) ==
  /\ pc = "await"
  /\ LET r == makeNWSRequest(pending.url, net)
     IN  Advance(entry,
           AfterFetch(r, request, pending.call, WeatherConfig(env), Flag(entry)),
           [calls EXCEPT ![Len(calls)].net = net, ![Len(calls)].result = r])
  /\ UNCHANGED << env, entry, request, route >>
  /\ UNCHANGED << sseVars, slots >>

\* what the awaited fetch can do: nothing is sent for a url fetch() refuses
UpstreamOutcomes(p) ==
  IF ~p.url.valid THEN { [kind |-> "invalid_url", data |-> NullPayload] }
  ELSE IF p.call = "alerts" THEN FetchOutcomes(AlertsPayloads)
  ELSE IF p.call = "points" THEN FetchOutcomes(PointsPayloads)
  ELSE FetchOutcomes(ForecastPayloads)

\* the caller has its answer; the per-request objects are dropped
Finish ==
  /\ pc = "done"
  /\ pc' = "idle"
  /\ entry' = NoEntry
  /\ request' = NullRequest
  /\ own' = FALSE
  /\ pending' = NoPending
  /\ calls' = << >>
  /\ outcome' = << >>
  /\ http' = << >>
  /\ route' = NoRoute
  /\ UNCHANGED << env, initialized >>
  /\ UNCHANGED << sseVars, slots >>

\* GET /sse: handleSSERequest builds the stream, start() runs at once
OpenChannel(c) ==
  /\ fetch("GET", "/sse") = "handleSSERequest"
  /\ channels[c].stream = "none"
  /\ LET id == setInterval(timerSeq)
     IN  /\ channels' = [channels EXCEPT ![c] = start(@, id)]
         /\ timers' = timers \cup {id}
         /\ timerSeq' = IF id > timerSeq THEN id ELSE timerSeq
  /\ UNCHANGED << reqVars, slots >>

\* the interval of channel c fires
Tick(c) ==
  /\ channels[c].pingInterval \in timers
  /\ Pings(channels[c]) + channels[c].failedWrites < MaxPings
  /\ LET r == pingCallback(channels[c])
     IN  /\ channels' = [channels EXCEPT ![c] = r.channel]
         /\ timers' = IF r.clear THEN timers \ {channels[c].pingInterval} ELSE timers
  /\ UNCHANGED << reqVars, timerSeq, slots >>

\* the abort signal of the request of channel c fires (once)
Abort(c) ==
  /\ channels[c].stream # "none"
  /\ ~channels[c].aborted
  /\ LET marked == [channels[c] EXCEPT !.aborted = TRUE, !.log = Append(@, "<abort>")]
         r == IF marked.listening THEN abortListener(marked) ELSE Cleared(marked, FALSE)
     IN  /\ channels' = [channels EXCEPT ![c] = r.channel]
         /\ timers' = IF r.clear THEN timers \ {channels[c].pingInterval} ELSE timers
  /\ UNCHANGED << reqVars, timerSeq, slots >>

\* the consumer of the response body cancels the stream (the client went
\* away); the stream has no cancel callback, so the interval stays set
Cancel(c) ==
  /\ channels[c].stream = "readable"
  /\ channels' = [channels EXCEPT ![c] =
                    [@ EXCEPT !.stream = "cancelled", !.log = Append(@, "<cancel>")]]
  /\ UNCHANGED << reqVars, timers, timerSeq, slots >>

SseNext ==
  \/ \E c \in Channels : OpenChannel(c)
  \/ \E c \in Channels : Tick(c)
  \/ \E c \in Channels : Abort(c)
  \/ \E c \in Channels : Cancel(c)

SseSpec == Init /\ [][SseNext]_vars

\* POST /mcp or POST /sse arrives while other requests are in flight
ConcPost(k, path, r) ==
  /\ slots[k].pc = "idle"
  /\ slots' = [slots EXCEPT ![k] =
                 SlotStep(Slot("idle", path, r), handleRequest(r, FALSE), << >>)]
  /\ UNCHANGED << reqVars, sseVars >>

\* the fetch that handler k awaits comes back; the handler runs on
ConcFetchSettles(k, net) ==
  /\ slots[k].pc = "await"
  /\ LET me == Locals(slots, k)
         r  == makeNWSRequest(me.pending.url, net)
         n  == Len(slots[k].calls)
     IN  slots' = [slots EXCEPT ![k] =
           SlotStep(slots[k],
             AfterFetch(r, me.request, me.pending.call, WeatherConfig(env), me.own),
             [slots[k].calls EXCEPT ![n].net = net, ![n].result = r])]
  /\ UNCHANGED << reqVars, sseVars >>

ConcNext ==
  \/ \E k \in Slots, path \in PostPaths, r \in ConcRequests : ConcPost(k, path, r)
  \/ \E k \in Slots :
       \E net \in ConcOutcomes(slots[k].pending.call) : ConcFetchSettles(k, net)

ConcSpec == Init /\ [][ConcNext]_vars

Next ==
  \/ \E s \in Servers, r \in Requests : CallHandleRequest(s, r)
  \/ \E path \in PostPaths : PostMalformed(path)
  \/ \E path \in PostPaths, r \in Requests : Post(path, r)
  \/ \E method \in HttpMethods, path \in Paths : Answer(method, path)
  \/ \E net \in UpstreamOutcomes(pending) : FetchSettles(net)
  \/ Finish

Spec == Init /\ [][Next]_vars

\* ------------------------------------------------------------ observations
Settled == pc = "done" /\ outcome # << >>
Returned == Settled /\ outcome[1].step = "return"
Envelope == outcome[1].envelope[1]
HasResult(e) == Len(e.result) = 1
HasError(e) == Len(e.error) = 1
ErrorCode(e) == e.error[1].code
ErrorMessage(e) == e.error[1].message

IsEnvelopeObject == request.kind = "obj"
IsToolsCall == IsEnvelopeObject /\ request.method = "tools/call"
ParamsReadable == request.params.kind \in {"prim", "obj"}
ToolName == IF request.params.kind = "obj" THEN request.params.name ELSE Absent
KnownTools == { "get_alerts", "get_forecast" }
KnownMethods == { "initialize", "tools/list", "tools/call" }
FlagUntouched == Flag(entry) = entry.before

\* ------------------------------------------------------------------ claims

\* C1: every envelope handleRequest returns has exactly one of result and
\* error, and its id is the id of the request it answers.
C1_EnvelopeExactlyOne ==
  Returned =>
    /\ HasResult(Envelope) # HasError(Envelope)
    /\ Envelope.id = request.id

C1_Witness ==
  /\ Returned /\ IsToolsCall /\ Len(calls) = 2
  /\ HasError(Envelope) /\ ~HasResult(Envelope)
  /\ Envelope.id = "req-7"

\* C2: handleRequest never rejects; a failure during dispatch, in particular
\* a tools/call whose params cannot be destructured, becomes an error
\* envelope with code -32603 that echoes the request id.
C2_DispatchNeverRejects ==
  (Settled /\ IsEnvelopeObject) =>
    /\ Returned
    /\ (IsToolsCall /\ request.params.kind # "obj") =>
         /\ HasError(Envelope)
         /\ ErrorCode(Envelope) = InternalError
         /\ Envelope.id = request.id

\* C3: a tools/call of get_alerts or get_forecast with well-formed arguments
\* always returns a result envelope carrying a text, whatever the upstream
\* does.
WellFormedCall ==
  /\ IsToolsCall /\ request.params.kind = "obj" /\ request.params.args.kind = "obj"
  /\ \/ ToolName = "get_alerts" /\ request.params.args.state # Absent
     \/ /\ ToolName = "get_forecast"
        /\ request.params.args.latitude # Absent
        /\ request.params.args.longitude # Absent

C3_UpstreamNeverProtocolError ==
  (Settled /\ WellFormedCall) =>
    /\ Returned
    /\ HasResult(Envelope) /\ ~HasError(Envelope)
    /\ Len(Envelope.result[1].content) = 1
    /\ Envelope.result[1].content[1].type = "text"

\* C4: a POST body that is not JSON, or is JSON but not a request envelope
\* (no method, or the value null), gets status 400, code -32700 and no id.
NotAnEnvelope ==
  ~entry.json \/ request.kind # "obj" \/ request.method = Absent

C4_MalformedBodyIs400 ==
  (pc = "done" /\ entry.via \in PostPaths /\ NotAnEnvelope) =>
    /\ http[1].status = StatusBadRequest
    /\ HasError(http[1].body)
    /\ ErrorCode(http[1].body) = ParseError
    /\ http[1].body.id = << >>

\* C5: a request whose method is none of initialize, tools/list, tools/call
\* gets an error envelope with code -32601 whose message holds the method,
\* with no upstream call and the dispatcher's flag left as it was.
UnknownMethod ==
  request.kind # "null" /\ request.method \notin KnownMethods

C5_MethodNotFound ==
  /\ (pc = "await") => ~UnknownMethod
  /\ (pc = "done" /\ entry.json /\ UnknownMethod) =>
       /\ Returned
       /\ HasError(Envelope) /\ ~HasResult(Envelope)
       /\ ErrorCode(Envelope) = MethodNotFound
       /\ \E i \in DOMAIN ErrorMessage(Envelope) :
            ErrorMessage(Envelope)[i] = Str(request.method)
       /\ calls = << >>
       /\ FlagUntouched

C5_Witness ==
  /\ Returned /\ request.method = "nonexistent" /\ entry.via = "api"
  /\ entry.before /\ initialized[entry.server]
  /\ ErrorCode(Envelope) = MethodNotFound
  /\ ErrorMessage(Envelope)[2] = "nonexistent"

\* C6: a tools/call whose tool name is neither get_alerts nor get_forecast
\* gets an error envelope with code -32603, whatever its arguments, and no
\* upstream call is made.
UnknownToolCall ==
  IsToolsCall /\ ParamsReadable /\ ToolName \notin KnownTools

C6_UnknownTool ==
  /\ (pc = "await") => ~UnknownToolCall
  /\ (pc = "done" /\ entry.json /\ UnknownToolCall) =>
       /\ Returned
       /\ HasError(Envelope) /\ ~HasResult(Envelope)
       /\ ErrorCode(Envelope) = InternalError
       /\ calls = << >>

C6_Witness ==
  /\ Returned /\ IsToolsCall /\ ToolName = "get_weather"
  /\ request.params.args.kind = "undefined"
  /\ ErrorCode(Envelope) = InternalError /\ calls = << >>

\* C7: tools/list always returns exactly the descriptors get_alerts then
\* get_forecast, whatever was handled before on this or another instance,
\* with no upstream call and the dispatcher's flag left as it was.
IsToolsList ==
  request.kind # "null" /\ request.method = "tools/list"

C7_ToolsList ==
  /\ (pc = "await") => ~IsToolsList
  /\ (pc = "done" /\ entry.json /\ IsToolsList) =>
       /\ Returned
       /\ HasResult(Envelope) /\ ~HasError(Envelope)
       /\ Len(Envelope.result[1].tools) = 2
       /\ Envelope.result[1].tools[1].name = "get_alerts"
       /\ Envelope.result[1].tools[2].name = "get_forecast"
       /\ calls = << >>
       /\ FlagUntouched

C7_Witness ==
  /\ Returned /\ IsToolsList /\ entry.via = "api" /\ entry.server = 1
  /\ initialized[1] /\ ~initialized[2]
  /\ Len(Envelope.result[1].tools) = 2

\* C8: initialize always returns a result envelope with the fixed
\* protocolVersion, capabilities and a non-empty serverInfo, whatever its
\* params and whatever was handled before; it never returns an error.
IsInitialize ==
  request.kind # "null" /\ request.method = "initialize"

C8_InitializeFixed ==
  /\ (pc = "await") => ~IsInitialize
  /\ (pc = "done" /\ entry.json /\ IsInitialize) =>
       /\ Returned
       /\ HasResult(Envelope) /\ ~HasError(Envelope)
       /\ Envelope.result[1].protocolVersion = "2025-06-18"
       /\ Envelope.result[1].capabilities = [tools |-> << >>]
       /\ Envelope.result[1].serverInfo.name # ""
       /\ Envelope.result[1].serverInfo.version # ""

C8_Witness ==
  /\ Returned /\ IsInitialize /\ entry.via = "api"
  /\ entry.before
  /\ request.params.kind = "null"
  /\ Envelope.result[1].protocolVersion = "2025-06-18"

\* C9: get_alerts returns "Unable to fetch alerts or no alerts found." when
\* the fetch failed or the payload has no features list, "No active alerts
\* for this state." when features is empty, and otherwise one block per
\* feature, in upstream order, joined by "\n---\n".
IsAlertsCall ==
  IsToolsCall /\ request.params.kind = "obj" /\ ToolName = "get_alerts"
    /\ request.params.args.kind \in {"prim", "obj"}

ResultText == Envelope.result[1].content[1].text

Shown(v, fallback) ==
  IF v \in {Absent, ""} THEN fallback ELSE v

\* the block carries the five labelled values of the feature
BlockOf(chunk, f) ==
  /\ Len(chunk) = 11
  /\ chunk[1] = "\nEvent: " /\ chunk[2] = Shown(f.event, "Unknown")
  /\ chunk[3] = "\nArea: " /\ chunk[4] = Shown(f.areaDesc, "Unknown")
  /\ chunk[5] = "\nSeverity: " /\ chunk[6] = Shown(f.severity, "Unknown")
  /\ chunk[7] = "\nDescription: "
  /\ chunk[8] = Shown(f.description, "No description available")
  /\ chunk[9] = "\nInstructions: "
  /\ chunk[10] = Shown(f.instruction, "No specific instructions provided")

IsForecastCall ==
  IsToolsCall /\ request.params.kind = "obj" /\ ToolName = "get_forecast"
    /\ request.params.args.kind \in {"prim", "obj"}

ForecastFormatted ==
  /\ Settled /\ IsForecastCall /\ Len(calls) = 2
  /\ calls[2].net.kind = "ok" /\ calls[2].net.data.kind = "obj"
  /\ calls[2].net.data.properties.kind = "obj"
  /\ calls[2].net.data.properties.periods.kind = "list"

Min(a, b) == IF a < b THEN a ELSE b

\* number of blocks of a joined text
Blocks(text) == (Len(text) + 1) \div 2

C10_ForecastCap ==
  (ForecastFormatted /\ env.MAX_FORECAST_PERIODS.kind = "int") =>
    LET cap == env.MAX_FORECAST_PERIODS.n
        periods == calls[2].net.data.properties.periods.items
    IN  /\ Returned /\ HasResult(Envelope)
        /\ Blocks(ResultText) <= cap
        /\ Blocks(ResultText) = Min(Len(periods), cap)
        /\ \A i \in 1..Blocks(ResultText) : ResultText[2 * i - 1][2] = periods[i].name


\* C11: makeNWSRequest never raises to its caller; it returns null on a
\* network failure, a timeout, a non-2xx status and an unparseable body, and
\* a non-null payload only for a 2xx answer whose body parsed.
CallSettled(c) == c.net.kind # "pending"

C11_ClientNeverRaises ==
  \A i \in 1..Len(calls) :
    CallSettled(calls[i]) =>
      /\ ~calls[i].result.raised
      /\ (calls[i].net.kind # "ok") => calls[i].result.data.kind = "null"
      /\ (calls[i].result.data.kind # "null") =>
           /\ calls[i].url.valid
           /\ calls[i].net.kind = "ok"
           /\ calls[i].result.data = calls[i].net.data

C11_Witness ==
  /\ pc = "done" /\ Len(calls) = 2
  /\ calls[1].net.kind = "ok" /\ calls[1].result.data.kind = "obj"
  /\ calls[2].net.kind = "timeout" /\ calls[2].result.data.kind = "null"
  /\ ~calls[2].result.raised


\* C16: upstream calls per request are bounded and ordered: none for
\* initialize, tools/list and unknown methods, exactly one for get_alerts;
\* get_forecast fetches the points first and the forecast only after the
\* points fetch returned a payload; a failed points fetch gives "Unable to
\* fetch forecast data for this location." with no second call, a failed
\* forecast fetch gives "Unable to fetch detailed forecast."; never more
\* than two calls and never the same call twice.
CallKinds == [i \in 1..Len(calls) |-> calls[i].call]

C16_UpstreamCallsOrdered ==
  /\ Len(calls) <= 2
  /\ CallKinds \in { << >>, << "alerts" >>, << "points" >>, << "points", "forecast" >> }
  /\ \A i \in 1..Len(calls) : (i < Len(calls)) => CallSettled(calls[i])
  /\ ~(request.kind = "obj" /\ request.method = "tools/call") => calls = << >>
  /\ (IsAlertsCall /\ pc \in {"await", "done"}) => CallKinds = << "alerts" >>
  /\ (IsForecastCall /\ pc \in {"await", "done"}) =>
       /\ Len(calls) >= 1 /\ calls[1].call = "points"
       /\ (Len(calls) = 2) => calls[1].result.data.kind # "null"
  /\ (Settled /\ IsForecastCall /\ calls[1].result.data.kind = "null") =>
       /\ Len(calls) = 1
       /\ Returned /\ HasResult(Envelope)
       /\ ResultText = << << "Unable to fetch forecast data for this location." >> >>
  /\ (Settled /\ IsForecastCall /\ Len(calls) = 2
        /\ calls[2].result.data.kind = "null") =>
       /\ Returned /\ HasResult(Envelope)
       /\ ResultText = << << "Unable to fetch detailed forecast." >> >>

C16_Witness ==
  /\ Returned /\ IsForecastCall /\ Len(calls) = 2
  /\ calls[1].net.kind = "ok" /\ calls[2].net.kind = "http_error"
  /\ HasResult(Envelope)
  /\ ResultText = << << "Unable to fetch detailed forecast." >> >>


\* C13: POST /sse and POST /mcp answer every body and every upstream
\* behaviour with the same status, headers and envelope.
PostAnswered == pc = "done" /\ entry.via \in PostPaths

\* what the POST handler was given: the settled dispatch, or the failure of
\* request.json()
Dispatched == IF entry.json THEN outcome[1] ELSE JsonFailure

C13_PostRoutesEquivalent ==
  /\ fetch("POST", "/sse") = "handleSSEPost"
  /\ fetch("POST", "/mcp") = "handleMCPMessage"
  /\ PostAnswered =>
       /\ PostResponse("/sse", Dispatched) = PostResponse("/mcp", Dispatched)
       /\ http[1] = PostResponse("/sse", Dispatched)
       /\ http[1] = PostResponse("/mcp", Dispatched)

C13_Witness ==
  /\ PostAnswered /\ entry.via = "/sse" /\ entry.json
  /\ IsToolsCall /\ Len(calls) = 2
  /\ http[1].status = StatusOK
  /\ http[1] = handleMCPMessage(outcome[1])

\* C14: every response with a JSON body carries the header
\* Access-Control-Allow-Origin: *.
IsJsonResponse ==
  pc = "done" /\ http # << >>
    /\ << "Content-Type", "application/json" >> \in http[1].headers

C14_JsonHasCors ==
  IsJsonResponse => << "Access-Control-Allow-Origin", "*" >> \in http[1].headers

\* C15 as stated: every request outside the listed rows gets 404 with a
\* plain-text body and never reaches the dispatcher.
ListedRows ==
  { Route("GET", "/"), Route("GET", "/sse"), Route("POST", "/sse"),
    Route("POST", "/mcp"), Route("GET", "/tools"), Route("GET", "/health") }
    \cup { Route("OPTIONS", p) : p \in Paths }

IsPlainNotFound ==
  /\ http[1].status = StatusNotFound
  /\ http[1].headers = TextHeaders
  /\ http[1].body.kind = "text"

ReachedDispatcher == outcome # << >>

C15_UnlistedIs404 ==
  (pc = "done" /\ route # NoRoute /\ route \notin ListedRows) =>
    IsPlainNotFound /\ ~ReachedDispatcher

\* C15 amended: a request other than OPTIONS whose path is none of /, /sse,
\* /mcp, /tools, /health, or whose path is /sse with a method other than GET
\* and POST, gets 404 with a plain-text body and never reaches the
\* dispatcher; a request to /mcp with a method other than POST gets 405
\* without reaching the dispatcher; /, /tools and /health answer every
\* method with 200, /tools through the dispatcher.
KnownPaths == { "/", "/sse", "/mcp", "/tools", "/health" }

C15_UnroutedIs404 ==
  (pc = "done" /\ route # NoRoute /\ route.method # "OPTIONS") =>
    /\ (route.path \notin KnownPaths
          \/ (route.path = "/sse" /\ route.method \notin {"GET", "POST"})) =>
         IsPlainNotFound /\ ~ReachedDispatcher
    /\ (route.path = "/mcp" /\ route.method # "POST") =>
         /\ http[1].status = StatusMethodNotAllowed
         /\ http[1].body.kind = "text"
         /\ ~ReachedDispatcher
    /\ (route.path \in {"/", "/tools", "/health"}) =>
         /\ http[1].status = StatusOK
         /\ ReachedDispatcher <=> route.path = "/tools"

C15_Witness ==
  /\ pc = "done" /\ route = Route("PUT", "/sse")
  /\ http[1].status = StatusNotFound /\ http[1].body.text = "Not Found"
  /\ outcome = << >>

\* ------------------------------------------------------- stream channel claims
Events == {"connected", "ping", "error"}

TimerSet(c) == channels[c].pingInterval \in timers

Opened(c) == channels[c].stream # "none"

\* no event is written after the mark m in the log of the channel
NothingWrittenAfter(ch, m) ==
  \A i, j \in 1..Len(ch.log) :
    (i < j /\ ch.log[i] = m) => ch.log[j] \notin Events

\* C12: once the abort signal of a channel has fired, its interval is
\* cleared, the stream is no longer open, and nothing is written on the
\* channel after the abort.
C12_AbortStopsChannel ==
  \A c \in Channels :
    channels[c].aborted =>
      /\ ~TimerSet(c)
      /\ channels[c].stream \in {"closed", "cancelled"}
      /\ NothingWrittenAfter(channels[c], "<abort>")

C12_Witness ==
  \E c \in Channels :
    /\ channels[c].log = << "connected", "ping", "<abort>" >>
    /\ channels[c].stream = "closed"

\* C17: an opened channel has connected as its first log entry and nowhere
\* else, so before every ping; no error event is written (setup never
\* fails); an unopened channel has written nothing.
C17_ConnectedOnceFirst ==
  \A c \in Channels :
    LET log == channels[c].log
    IN  IF Opened(c)
        THEN /\ Len(log) >= 1
             /\ log[1] = "connected"
             /\ \A i \in 2..Len(log) : log[i] \notin {"connected", "error"}
        ELSE log = << >>

C17_Witness ==
  \E c \in Channels : channels[c].log = << "connected", "ping", "ping" >>

\* C18: a ping write fails at most once per channel; after it the interval
\* is cleared, and nothing was thrown out of the interval callback.
C18_FailedPingEndsLoop ==
  \A c \in Channels :
    /\ channels[c].failedWrites <= 1
    /\ channels[c].failedWrites = 1 => ~TimerSet(c)
    /\ \A i \in 1..Len(channels[c].uncaught) : channels[c].uncaught[i] # "pingCallback"

C18_Witness ==
  \E c \in Channels :
    /\ channels[c].failedWrites = 1
    /\ channels[c].log = << "connected", "<cancel>" >>
    /\ ~channels[c].aborted

\* a step changed channel c: its record, or whether its interval is set
ChannelChanged(c) ==
  \/ channels'[c] # channels[c]
  \/ (channels'[c].pingInterval \in timers') # TimerSet(c)

\* C19: every step (open, tick, abort, cancel) changes one channel only:
\* the record and the interval of every other channel stay as they were.
C19_ChannelsIsolated ==
  [][Cardinality({ c \in Channels : ChannelChanged(c) }) <= 1]_vars

\* one channel aborted, another failed a write, and a channel is still
\* open, with its interval set, having received a ping
C19_Witness ==
  \E c, d \in Channels :
    /\ c # d
    /\ channels[c].aborted \/ channels[c].failedWrites = 1
    /\ channels[d].stream = "readable"
    /\ TimerSet(d)
    /\ Pings(channels[d]) >= 1

\* --------------------------------------------------- concurrent request claims
\* handleRequest run to its end for req alone, on a fresh MCPServer, with
\* the upstream answers of log from position i on; d is the step reached
RECURSIVE RunAlone(_, _, _, _, _)
RunAlone(req, config, log, i, d) ==
  IF d.step # "await" \/ i > Len(log) THEN d
  ELSE RunAlone(req, config, log, i + 1,
         AfterFetch(makeNWSRequest(d.url, log[i].net), req, d.call, config,
                    d.initialized))

Alone(sl) ==
  RunAlone(sl.request, WeatherConfig(env), sl.calls, 1, handleRequest(sl.request, FALSE))

Answered(k) == slots[k].pc = "done"

\* some other request was in flight or answered alongside request k
Alongside(k) == \E j \in Slots : j # k /\ slots[j].pc # "idle"

\* the answer of request k is the answer it gets when handled alone with
\* the same upstream answers
SameAsAlone(k) ==
  /\ slots[k].outcome = << Alone(slots[k]) >>
  /\ slots[k].http = << PostResponse(slots[k].via, Alone(slots[k])) >>

\* the envelope sent to request k carries the id of request k
OwnId(k) == slots[k].http[1].body.id = << slots[k].request.id >>

\* requests handled side by side do not change each other's answers
ConcIsolated ==
  \A k \in Slots : (Answered(k) /\ Alongside(k)) => SameAsAlone(k)

\* C20: every request answered alongside others gets the answer it would
\* get alone with the same upstream answers, in an envelope with its own id.
C20_ConcurrentIsolated ==
  \A k \in Slots : (Answered(k) /\ Alongside(k)) => (SameAsAlone(k) /\ OwnId(k))

\* ------------------------------------------------------- session flag claims
\* the current request run to its end on an instance whose flag is init,
\* with the upstream answers that were recorded
WithFlag(init) ==
  RunAlone(request, WeatherConfig(env), calls, 1, handleRequest(request, init))

\* what the caller sees of a settled step: resolved or rejected, and with what
Seen(d) == [step |-> d.step, envelope |-> d.envelope, message |-> d.message]

OnInstance == entry.via = "api"
NotInitialize == IsEnvelopeObject /\ request.method # "initialize"

\* the answer does not depend on the flag, and is the answer given
FlagIrrelevant ==
  (Settled /\ OnInstance /\ NotInitialize) =>
    /\ Seen(WithFlag(TRUE)) = Seen(WithFlag(FALSE))
    /\ Seen(outcome[1]) = Seen(WithFlag(entry.before))

\* a step keeps a flag that is set, and sets a flag only by handling initialize
FlagStep ==
  \A sv \in Servers :
    /\ initialized[sv] => initialized'[sv]
    /\ (~initialized[sv] /\ initialized'[sv]) =>
         (entry'.via = "api" /\ entry'.server = sv /\ request'.kind = "obj"
          /\ request'.method = "initialize")
    /\ (pc = "idle" /\ entry'.via = "api" /\ entry'.server = sv
        /\ request'.kind = "obj" /\ request'.method = "initialize") => initialized'[sv]

\* C21: the flag of every instance starts false, is set by initialize and
\* stays set; the answer to tools/list, tools/call and unrecognized methods
\* is the same whether the flag was set or not.
C21_FlagNeverPrecondition ==
  /\ \A sv \in Servers : ~initialized[sv]
  /\ []FlagIrrelevant
  /\ [][FlagStep]_vars

\* a tool call answered with a result by an instance that was initialized
C21_Witness ==
  /\ Returned /\ OnInstance /\ entry.before
  /\ IsToolsCall
  /\ HasResult(Envelope)
  /\ Len(calls) >= 1

\* ------------------------------------------------------- argument validation
\* what the tool reads for a declared parameter (undefined on a primitive)
ArgRead(x) ==
  IF request.params.kind # "obj" \/ request.params.args.kind # "obj" THEN Absent
  ELSE IF x = "state" THEN request.params.args.state
  ELSE IF x = "latitude" THEN request.params.args.latitude
  ELSE request.params.args.longitude

\* the names the inputSchema of the tool lists under required
Required(tool) ==
  IF tool = "get_alerts" THEN { "state" } ELSE { "latitude", "longitude" }

\* a call of a known tool whose arguments lack a required name
LacksRequired ==
  /\ IsToolsCall /\ ParamsReadable
  /\ ToolName \in KnownTools
  /\ \E x \in Required(ToolName) : ArgRead(x) = Absent

\* C22: a call of get_alerts without state, or of get_forecast without
\* latitude or longitude, makes no upstream call and is answered with an
\* error envelope with code -32603.
C22_ArgumentsValidated ==
  (pc # "idle" /\ LacksRequired) =>
    /\ calls = << >>
    /\ Settled => (Returned /\ HasError(Envelope) /\ ErrorCode(Envelope) = InternalError)

\* ------------------------------------------------------------ status codes
IsParseError(r) == HasError(r.body) /\ ErrorCode(r.body) = ParseError

RecognizedRequest ==
  entry.json /\ IsEnvelopeObject /\ request.method \in KnownMethods

\* status 400 comes only with -32700, and every envelope of the dispatcher
\* goes out with status 200
StatusMatchesEnvelope ==
  PostAnswered =>
    /\ http[1].status = StatusBadRequest => IsParseError(http[1])
    /\ (entry.json /\ Returned) =>
         (http[1].status = StatusOK /\ http[1].body = Stringify(Envelope))

\* C23: on POST /mcp and POST /sse, status 400 comes only with code -32700,
\* every envelope of the dispatcher is sent with status 200, and a request
\* that parsed to an envelope with a recognized method is never answered
\* with -32700.
C23_StatusAndParseError ==
  /\ StatusMatchesEnvelope
  /\ (PostAnswered /\ RecognizedRequest) => ~IsParseError(http[1])

\* ------------------------------------------------------------- channel close
\* C24: controller.close() is called at most once on a channel, never on a
\* stream that is already closed or cancelled, and it never raises.
C24_CloseOnceNeverRaises ==
  \A c \in Channels :
    /\ channels[c].closes <= 1
    /\ channels[c].uncaught = << >>

====
